---- MODULE Spec2Model ----
(***************************************************************************)
(* hdf5-rs, src/macros.rs: the macros that serialise every call into the   *)
(* HDF5 library through the global reentrant mutex (h5lock!, h5call!,      *)
(* h5try!), the propagation macros (fail!, ensure!) and the tuple getters  *)
(* (H5Get, h5get!, h5get_d!).                                              *)
(*                                                                         *)
(* A macro is modelled as what it is: an operator that builds the          *)
(* expression it expands to.  Expressions are tuples <<op, ...>>; every    *)
(* thread evaluates one expression with a small-step machine: ctl[t] is    *)
(* what the thread does next (evaluate an expression, hand a value to the  *)
(* enclosing frame, return early, unwind a panic) and stack[t] holds the   *)
(* frames of the calls and pending operations around it.                   *)
(*                                                                         *)
(* crate::sync::sync and crate::error::h5check are called by the macros    *)
(* but defined in other files of the crate; they are modelled from the     *)
(* specification (sections 4.1 and 4.2).                                   *)
(***************************************************************************)
EXTENDS Integers, Sequences, FiniteSets, TLC

VARIABLES
    owner,      \* the thread holding the global lock, 0 when it is free
    count,      \* how many times the owner holds it (reentrant)
    diag,       \* the library's process-global diagnostic state
    counter,    \* a shared word the closures of the workers increment
    ctl,        \* ctl[t]: the control of thread t
    stack,      \* stack[t]: its frames, innermost first
    slots,      \* slots[t]: the output slots a, b, c, d of its h5get
    tmp,        \* tmp[t]: the value its closure read from counter
    calls,      \* calls[t]: the statuses of the foreign calls it made
    lockLog,    \* lockLog[t]: its hold count after each acquire and release
    prog        \* prog[t]: the expression it was started with

vars == <<owner, count, diag, counter, ctl, stack, slots, tmp, calls, lockLog, prog>>

----------------------------------------------------------------------------
(* Bounds *)

NThreads == 2
MaxDepth == 2
MaxStatus == 1
IncrPerThread == 2
MaxVal == 2

(* impl_h5get! is instantiated for the arities 1..4 *)
MaxArity == 4

Threads == 1..NThreads
Statuses == (0 - MaxStatus - 1)..MaxStatus
Vals == 1..MaxVal

----------------------------------------------------------------------------
(* Values *)

Unit == <<"unit">>
Scalar(n) == <<"int", n>>
Tuple(seq) == <<"tuple", seq>>
Ok(v) == <<"Ok", v>>
Err(e) == <<"Err", e>>
IsOk(r) == r[1] = "Ok"
IsErr(r) == r[1] = "Err"

(* Default::default() of a numeric output slot *)
Default == 0

NoDiag == <<0, 0>>

----------------------------------------------------------------------------
(* Code of the crate outside macros.rs *)

(* error::h5check: a negative status is an error built from the diagnostic
   state as it is now, any other status is returned unchanged as Ok *)
h5check(value, d) ==
    IF value[2] < 0 THEN Err(<<"H5", d>>) ELSE Ok(value)

(* sync::sync(func): the lock can be taken by t when it is free or already
   held by t *)
CanLock(t) == owner = 0 \/ owner = t

(* a lock released by hand after func returns, which an early return or a
   panic would skip *)
GuardDropped_on_return_only(mode) == mode = "val"

(* the guard of sync is dropped however its frame is left *)
GuardDropped(mode) == mode \in {"val", "return", "panic"}

(* From::from: a message becomes the crate's error, an error stays as it is *)
From(x) == IF x[1] = "String" THEN <<"Internal", x[2]>> ELSE x

----------------------------------------------------------------------------
(* format!: the template is a sequence of characters and "{}" holes, each
   hole takes the next argument in decimal *)

DigitChar == <<"0", "1", "2", "3", "4", "5", "6", "7", "8", "9">>

RECURSIVE Decimal(_)
Decimal(n) ==
    IF n < 10 THEN <<DigitChar[n + 1]>>
    ELSE Decimal(n \div 10) \o <<DigitChar[(n % 10) + 1]>>

Display(n) == IF n < 0 THEN <<"-">> \o Decimal(0 - n) ELSE Decimal(n)

RECURSIVE FormatChars(_, _)
FormatChars(fmt, args) ==
    IF fmt = <<>> THEN <<>>
    ELSE IF Head(fmt) = "{}"
         THEN Display(Head(args)) \o FormatChars(Tail(fmt), Tail(args))
         ELSE <<Head(fmt)>> \o FormatChars(Tail(fmt), args)

format(fmt, args) == <<"String", FormatChars(fmt, args)>>

----------------------------------------------------------------------------
(* The macros, as the expressions they expand to *)

(* a foreign function called with the output pointers: it returns status and
   writes w[i] into the i-th slot for the i in DOMAIN w *)
Ffi(status, w) == <<"ffi", status, w>>

(* fail!($err): return Err(From::from($err)) *)
fail(err) == <<"fail", err>>

(* ensure! without the negation: if (expr) { fail!(..) } *)
ensure_inverted(expr, fmt, args) ==
    <<"if_not", ~expr, IF args = <<>> THEN fail(<<"String", fmt>>) ELSE fail(format(fmt, args))>>

(* ensure!(expr, fmt, args..): if !(expr) { fail!(format!(fmt, args..)) };
   ensure!(expr, err), no arguments: if !(expr) { fail!(err) } *)
ensure(expr, fmt, args) ==
    <<"if_not", expr, IF args = <<>> THEN fail(<<"String", fmt>>) ELSE fail(format(fmt, args))>>

(* h5lock! that calls the closure without sync: (|| $expr)() *)
h5lock_nosync(expr) == <<"closure", expr>>

(* h5lock!($expr): sync(|| $expr) *)
h5lock(expr) == <<"sync", expr>>

(* h5call! that checks after the lock is released: h5check(h5lock!($expr)) *)
h5call_check_unlocked(expr) == <<"h5check", h5lock(expr)>>

(* h5call! that does not check the status: h5lock!(Ok($expr)) *)
h5call_always_ok(expr) == h5lock(<<"Ok", expr>>)

(* h5call!($expr): h5lock!(h5check($expr)) *)
h5call(expr) == h5lock(<<"h5check", expr>>)

(* h5try!($expr): match h5call!($expr) { .. } *)
h5try(expr) == <<"match_h5try", h5call(expr)>>

(* arms that do not return: Ok(value) => value, Err(_) => -1 *)
h5try_arms_no_return(r) ==
    IF IsOk(r) THEN <<"val", r[2]>> ELSE <<"val", Scalar(0 - 1)>>

(* the arms of h5try!: Ok(value) => value, Err(err) => return Err(From::from(err)) *)
h5try_arms(r) ==
    IF IsOk(r) THEN <<"val", r[2]>> ELSE <<"return", Err(From(r[2]))>>

(* impl_h5get!: fn h5get(func, id) { let mut a = Default::default(); ..;
   h5call!(func(id, &mut a, ..)).map(|_| (a, ..)) }.  func is the foreign
   call with the id already chosen. *)
h5get(n, func) == <<"fn", <<"let_slots", n, <<"map_slots", h5call(func)>>>>>>

(* the tuple built in the reverse of the declared order *)
h5get_map_reversed(r, sl) ==
    IF IsOk(r) THEN Ok(Tuple([i \in 1..Len(sl) |-> sl[Len(sl) + 1 - i]])) ELSE r

(* the status dropped: h5call!(..); Ok(($($name,)+)) *)
h5get_map_ignores_status(r, sl) == Ok(Tuple(sl))

(* .map(|_| ($($name,)+)) of h5get: the slots in declared order *)
h5get_map(r, sl) == IF IsOk(r) THEN Ok(Tuple(sl)) ELSE r

(* H5Get::h5get_d: Self::h5get(func, id).unwrap_or_else(|_| Self::default()) *)
h5get_d(n, func) == <<"fn", <<"unwrap_or_default", n, h5get(n, func)>>>>

unwrap_or_default(r, n) ==
    IF IsOk(r) THEN r[2] ELSE Tuple([i \in 1..n |-> Default])

(* h5get!($func($id): $ty) maps the 1-tuple to its component,
   h5get!($func($id): $($ty),+) is the tuple *)
h5get_macro(n, func) ==
    IF n = 1 THEN <<"map_0", h5get(n, func)>> ELSE h5get(n, func)

(* .map(|x| x.0) *)
map_0(r) == IF IsOk(r) THEN Ok(Scalar(r[2][2][1])) ELSE r

(* .0 *)
dot_0(v) == Scalar(v[2][1])

(* h5get_d!: the same with h5get_d, .0 for one type *)
h5get_d_macro(n, func) ==
    IF n = 1 THEN <<"dot_0", h5get_d(n, func)>> ELSE h5get_d(n, func)

----------------------------------------------------------------------------
(* The programs the threads run *)

NoWrites == <<>>

(* the closure body of a worker: a read of the counter, then the write of
   the value read plus one *)
Incr == <<"block", << <<"read">>, <<"write">> >> >>

RECURSIVE Nested(_, _)
Nested(d, body) == IF d = 0 THEN body ELSE h5lock(Nested(d - 1, body))

Worker == <<"block", [i \in 1..IncrPerThread |-> h5lock(Incr)]>>

Checked(s) == h5call(Ffi(s, NoWrites))

(* a closure that h5try! leaves early when the first call fails *)
EarlyReturn(s) ==
    <<"fn", h5lock(<<"block", <<h5try(Ffi(s, NoWrites)), h5call(Ffi(0, NoWrites))>> >>)>>

(* an operation of two checked calls, the status of the second its value *)
TryProgram(s1, s2) ==
    <<"fn", <<"block", <<h5try(Ffi(s1, NoWrites)), <<"Ok", h5try(Ffi(s2, NoWrites))>> >> >> >>

(* the templates and arguments of the messages *)
MsgFmt == <<"m", "s", "g", " ", "{}">>
Fmts == {MsgFmt, <<"{}", "!">>, <<"n", "o">>}
FmtArgs == {7, 42, 0 - 3}
ArgsOf(fmt) == IF "{}" \in {fmt[i] : i \in DOMAIN fmt} THEN {<<a>> : a \in FmtArgs} ELSE {<<>>}

(* an operation that checks a condition, then makes a checked call *)
EnsureProgram(c, fmt, args) ==
    <<"fn", <<"block", <<ensure(c, fmt, args), h5call(Ffi(0, NoWrites))>> >> >>

(* what a getter function can write: values into any of its n slots *)
Writes(n) == UNION {[S -> Vals] : S \in SUBSET (1..n)}

GetProgramsOf(n) ==
    UNION {{h5get_macro(n, Ffi(s, w)), h5get_d_macro(n, Ffi(s, w))} :
              s \in Statuses, w \in Writes(n)}

GetPrograms == UNION {GetProgramsOf(n) : n \in 1..MaxArity}

SeqPrograms ==
    GetPrograms
    \cup {TryProgram(s1, s2) : s1 \in Statuses, s2 \in Statuses}
    \cup UNION {{EnsureProgram(c, fmt, args) : c \in BOOLEAN, args \in ArgsOf(fmt)} : fmt \in Fmts}

Idle == <<"unit">>

ConcPrograms ==
    {Nested(d, Incr) : d \in 1..MaxDepth}
    \cup {Nested(d, <<"panic">>) : d \in 1..MaxDepth}
    \cup {Worker}
    \cup {Checked(s) : s \in Statuses}
    \cup {EarlyReturn(s) : s \in {0 - 1, 0}}

----------------------------------------------------------------------------
(* The machine *)

Evaluating(t, ops) == ctl[t][1] = "eval" /\ ctl[t][2][1] \in ops
Expr(t) == ctl[t][2]
HasFrame(t) == stack[t] # <<>>
Top(t) == Head(stack[t])

Boundaries == {"fn", "closure", "sync"}
Pending == {"h5check", "match_h5try", "Ok", "map_slots", "map_0", "dot_0"}

Halted(t) == ctl[t][1] \in {"done", "dead"}
AllHalted == \A t \in Threads : Halted(t)

InLockedClosure(t) ==
    \E i \in 1..Len(stack[t]) : stack[t][i][1] \in {"sync", "closure"}

Held(t) == IF owner = t THEN count ELSE 0

(* sync(func): take the lock, run func while the guard is alive *)
sync(t) ==
    /\ Evaluating(t, {"sync"})
    /\ CanLock(t)
    /\ owner' = t
    /\ count' = count + 1
    /\ lockLog' = [lockLog EXCEPT ![t] = Append(@, count + 1)]
    /\ stack' = [stack EXCEPT ![t] = <<<<"sync">>>> \o @]
    /\ ctl' = [ctl EXCEPT ![t] = <<"eval", Expr(t)[2]>>]
    /\ UNCHANGED <<diag, counter, slots, tmp, calls, prog>>

(* the lock as the frame of sync is left in `mode` *)
Release(t, mode) ==
    IF Top(t)[1] = "sync" /\ GuardDropped(mode)
    THEN /\ count' = count - 1
         /\ owner' = IF count = 1 THEN 0 ELSE owner
         /\ lockLog' = [lockLog EXCEPT ![t] = Append(@, count - 1)]
    ELSE UNCHANGED <<owner, count, lockLog>>

(* the body of a function or a closure called directly *)
Call(t) ==
    /\ Evaluating(t, {"fn", "closure"})
    /\ stack' = [stack EXCEPT ![t] = <<<<Expr(t)[1]>>>> \o @]
    /\ ctl' = [ctl EXCEPT ![t] = <<"eval", Expr(t)[2]>>]
    /\ UNCHANGED <<owner, count, lockLog, diag, counter, slots, tmp, calls, prog>>

(* { s1; s2; ..; last } *)
Block(t) ==
    /\ Evaluating(t, {"block"})
    /\ stack' = [stack EXCEPT ![t] = <<<<"block", Tail(Expr(t)[2])>>>> \o @]
    /\ ctl' = [ctl EXCEPT ![t] = <<"eval", Head(Expr(t)[2])>>]
    /\ UNCHANGED <<owner, count, lockLog, diag, counter, slots, tmp, calls, prog>>

(* $expr of h5call!: the foreign function runs; the library clears its
   diagnostic state on entry and records the failure of a failing call *)
Foreign(t) ==
    /\ Evaluating(t, {"ffi"})
    /\ calls' = [calls EXCEPT ![t] = Append(@, Expr(t)[2])]
    /\ diag' = IF Expr(t)[2] < 0 THEN <<t, Len(calls[t]) + 1>> ELSE NoDiag
    /\ slots' = [slots EXCEPT ![t] =
                    [i \in DOMAIN @ |->
                        IF i \in DOMAIN Expr(t)[3] THEN Expr(t)[3][i] ELSE @[i]]]
    /\ ctl' = [ctl EXCEPT ![t] = <<"val", Scalar(Expr(t)[2])>>]
    /\ UNCHANGED <<owner, count, lockLog, counter, stack, tmp, prog>>

(* an operation applied to the value of its operand: the operand first *)
EvalArg(t) ==
    /\ \/ /\ Evaluating(t, Pending)
          /\ stack' = [stack EXCEPT ![t] = <<<<Expr(t)[1]>>>> \o @]
          /\ ctl' = [ctl EXCEPT ![t] = <<"eval", Expr(t)[2]>>]
       \/ /\ Evaluating(t, {"unwrap_or_default"})
          /\ stack' = [stack EXCEPT ![t] = <<<<Expr(t)[1], Expr(t)[2]>>>> \o @]
          /\ ctl' = [ctl EXCEPT ![t] = <<"eval", Expr(t)[3]>>]
    /\ UNCHANGED <<owner, count, lockLog, diag, counter, slots, tmp, calls, prog>>

(* the pending operation on top of the stack takes the value *)
Continue(t) ==
    /\ ctl[t][1] = "val"
    /\ HasFrame(t)
    /\ Top(t)[1] \notin Boundaries
    /\ LET v == ctl[t][2]
           f == Top(t)
           rest == Tail(stack[t])
       IN  CASE f[1] = "block" /\ f[2] # <<>> ->
                  /\ stack' = [stack EXCEPT ![t] = <<<<"block", Tail(f[2])>>>> \o rest]
                  /\ ctl' = [ctl EXCEPT ![t] = <<"eval", Head(f[2])>>]
             [] f[1] = "block" /\ f[2] = <<>> ->
                  /\ stack' = [stack EXCEPT ![t] = rest]
                  /\ ctl' = ctl
             [] f[1] = "h5check" ->
                  /\ stack' = [stack EXCEPT ![t] = rest]
                  /\ ctl' = [ctl EXCEPT ![t] = <<"val", h5check(v, diag)>>]
             [] f[1] = "match_h5try" ->
                  /\ stack' = [stack EXCEPT ![t] = rest]
                  /\ ctl' = [ctl EXCEPT ![t] = h5try_arms(v)]
             [] f[1] = "Ok" ->
                  /\ stack' = [stack EXCEPT ![t] = rest]
                  /\ ctl' = [ctl EXCEPT ![t] = <<"val", Ok(v)>>]
             [] f[1] = "map_slots" ->
                  /\ stack' = [stack EXCEPT ![t] = rest]
                  /\ ctl' = [ctl EXCEPT ![t] = <<"val", h5get_map(v, slots[t])>>]
             [] f[1] = "unwrap_or_default" ->
                  /\ stack' = [stack EXCEPT ![t] = rest]
                  /\ ctl' = [ctl EXCEPT ![t] = <<"val", unwrap_or_default(v, f[2])>>]
             [] f[1] = "map_0" ->
                  /\ stack' = [stack EXCEPT ![t] = rest]
                  /\ ctl' = [ctl EXCEPT ![t] = <<"val", map_0(v)>>]
             [] f[1] = "dot_0" ->
                  /\ stack' = [stack EXCEPT ![t] = rest]
                  /\ ctl' = [ctl EXCEPT ![t] = <<"val", dot_0(v)>>]
    /\ UNCHANGED <<owner, count, lockLog, diag, counter, slots, tmp, calls, prog>>

(* return: the pending operations of the function or closure are skipped *)
Unwind(t) ==
    /\ ctl[t][1] = "return"
    /\ HasFrame(t)
    /\ Top(t)[1] \notin Boundaries
    /\ stack' = [stack EXCEPT ![t] = Tail(@)]
    /\ UNCHANGED <<owner, count, lockLog, diag, counter, ctl, slots, tmp, calls, prog>>

(* a function, a closure or sync returns to its caller, with the value of
   its body or of a return in it *)
Leave(t) ==
    /\ ctl[t][1] \in {"val", "return"}
    /\ HasFrame(t)
    /\ Top(t)[1] \in Boundaries
    /\ Release(t, ctl[t][1])
    /\ stack' = [stack EXCEPT ![t] = Tail(@)]
    /\ ctl' = [ctl EXCEPT ![t] = <<"val", ctl[t][2]>>]
    /\ UNCHANGED <<diag, counter, slots, tmp, calls, prog>>

(* the thread's expression has its value *)
Halt(t) ==
    /\ ctl[t][1] = "val"
    /\ ~HasFrame(t)
    /\ ctl' = [ctl EXCEPT ![t] = <<"done", ctl[t][2]>>]
    /\ UNCHANGED <<owner, count, lockLog, diag, counter, stack, slots, tmp, calls, prog>>

(* let v = *counter *)
Read(t) ==
    /\ Evaluating(t, {"read"})
    /\ tmp' = [tmp EXCEPT ![t] = counter]
    /\ ctl' = [ctl EXCEPT ![t] = <<"val", Unit>>]
    /\ UNCHANGED <<owner, count, lockLog, diag, counter, stack, slots, calls, prog>>

(* *counter = v + 1 *)
Write(t) ==
    /\ Evaluating(t, {"write"})
    /\ counter' = tmp[t] + 1
    /\ ctl' = [ctl EXCEPT ![t] = <<"val", Unit>>]
    /\ UNCHANGED <<owner, count, lockLog, diag, stack, slots, tmp, calls, prog>>

(* let mut a: A = Default::default(); .. for the n slots of h5get *)
LetSlots(t) ==
    /\ Evaluating(t, {"let_slots"})
    /\ slots' = [slots EXCEPT ![t] = [i \in 1..Expr(t)[2] |-> Default]]
    /\ ctl' = [ctl EXCEPT ![t] = <<"eval", Expr(t)[3]>>]
    /\ UNCHANGED <<owner, count, lockLog, diag, counter, stack, tmp, calls, prog>>

(* if !(cond) { body } *)
IfNot(t) ==
    /\ Evaluating(t, {"if_not"})
    /\ ctl' = [ctl EXCEPT ![t] =
                 IF ~Expr(t)[2] THEN <<"eval", Expr(t)[3]>> ELSE <<"val", Unit>>]
    /\ UNCHANGED <<owner, count, lockLog, diag, counter, stack, slots, tmp, calls, prog>>

(* return Err(From::from(err)) *)
Fail(t) ==
    /\ Evaluating(t, {"fail"})
    /\ ctl' = [ctl EXCEPT ![t] = <<"return", Err(From(Expr(t)[2]))>>]
    /\ UNCHANGED <<owner, count, lockLog, diag, counter, stack, slots, tmp, calls, prog>>

(* the closure panics *)
Panic(t) ==
    /\ Evaluating(t, {"panic"})
    /\ ctl' = [ctl EXCEPT ![t] = <<"panic">>]
    /\ UNCHANGED <<owner, count, lockLog, diag, counter, stack, slots, tmp, calls, prog>>

(* unwinding leaves one frame *)
PanicUnwind(t) ==
    /\ ctl[t][1] = "panic"
    /\ HasFrame(t)
    /\ Release(t, "panic")
    /\ stack' = [stack EXCEPT ![t] = Tail(@)]
    /\ UNCHANGED <<diag, counter, ctl, slots, tmp, calls, prog>>

(* the panic ends the thread *)
Die(t) ==
    /\ ctl[t][1] = "panic"
    /\ ~HasFrame(t)
    /\ ctl' = [ctl EXCEPT ![t] = <<"dead">>]
    /\ UNCHANGED <<owner, count, lockLog, diag, counter, stack, slots, tmp, calls, prog>>

Start(progs, running) ==
    /\ owner = 0
    /\ count = 0
    /\ diag = NoDiag
    /\ counter = 0
    /\ prog \in progs
    /\ ctl = [t \in Threads |->
                IF t \in running THEN <<"eval", prog[t]>> ELSE <<"done", Unit>>]
    /\ stack = [t \in Threads |-> <<>>]
    /\ slots = [t \in Threads |-> <<>>]
    /\ tmp = [t \in Threads |-> 0]
    /\ calls = [t \in Threads |-> <<>>]
    /\ lockLog = [t \in Threads |-> <<>>]

(* every thread runs a locked program *)
Init == Start([Threads -> ConcPrograms], Threads)

Next ==
    \E t \in Threads :
        \/ sync(t)
        \/ Call(t)
        \/ Block(t)
        \/ Foreign(t)
        \/ EvalArg(t)
        \/ Continue(t)
        \/ Unwind(t)
        \/ Leave(t)
        \/ Halt(t)
        \/ Read(t)
        \/ Write(t)
        \/ Panic(t)
        \/ PanicUnwind(t)
        \/ Die(t)

Spec == Init /\ [][Next]_vars

(* one thread runs an operation built from the getters and the propagation
   macros, the others have nothing to do *)
InitSeq ==
    Start({[t \in Threads |-> IF t = 1 THEN p ELSE Idle] : p \in SeqPrograms}, {1})

NextSeq ==
    \E t \in Threads :
        \/ sync(t)
        \/ Call(t)
        \/ Block(t)
        \/ Foreign(t)
        \/ EvalArg(t)
        \/ Continue(t)
        \/ Unwind(t)
        \/ Leave(t)
        \/ Halt(t)
        \/ LetSlots(t)
        \/ IfNot(t)
        \/ Fail(t)

SpecSeq == InitSeq /\ [][NextSeq]_vars

----------------------------------------------------------------------------
(* Properties *)

Done(t) == ctl[t][1] = "done"
Result(t) == ctl[t][2]

SyncFrames(t) ==
    Cardinality({i \in 1..Len(stack[t]) : stack[t][i][1] = "sync"})

(* C1: mutual exclusion: in every reachable state at most one thread is
   executing inside the closure of a locked call, nested locked calls
   included *)
C1_MutualExclusion ==
    Cardinality({t \in Threads : InLockedClosure(t)}) <= 1

(* one thread is two locked calls deep while another waits to enter one *)
C1_Witness ==
    \E t \in Threads, u \in Threads :
        t # u /\ SyncFrames(t) >= 2 /\ Evaluating(u, {"sync"})

(* the hold counts of a thread that makes d nested locked calls and leaves
   them innermost first: 1, .., d, d - 1, .., 0 *)
UpDown(d) == [i \in 1..(2 * d) |-> IF i <= d THEN i ELSE 2 * d - i]

(* C2: reentrancy: a locked call made inside the closure of a locked call of
   the same thread does not block on the lock that thread holds; the calls
   are entered outermost first while the outer ones are held and they are
   left innermost first; no state is a deadlock *)
C2_Reentrant ==
    /\ \A t \in Threads :
          Evaluating(t, {"sync"}) /\ owner = t => ENABLED sync(t)
    /\ \A t \in Threads, d \in 1..MaxDepth :
          Done(t) /\ prog[t] = Nested(d, Incr) =>
              lockLog[t] = UpDown(d) /\ Result(t) = Unit
    /\ AllHalted \/ ENABLED Next

(* a thread has completed the deepest nesting of locked calls *)
C2_Witness ==
    \E t \in Threads :
        /\ Done(t)
        /\ prog[t] = Nested(MaxDepth, Incr)
        /\ lockLog[t] = UpDown(MaxDepth)
        /\ MaxDepth >= 2

HoldsH5Error(t) ==
    /\ ctl[t][1] \in {"val", "return", "done"}
    /\ IsErr(ctl[t][2])
    /\ ctl[t][2][2][1] = "H5"

(* the status of the thread's foreign call is about to be checked *)
AtCheck(t) == ctl[t][1] = "val" /\ HasFrame(t) /\ Top(t)[1] = "h5check"

(* C3: in a checked call the status is checked, and the error built from
   the library's diagnostic state, while the thread still holds the lock; so
   whatever the interleaving, an error value a thread has in hand names that
   thread's own latest foreign call, and that call failed *)
C3_OwnDiagnostics ==
    \A t \in Threads :
        /\ AtCheck(t) => owner = t
        /\ HoldsH5Error(t) =>
              /\ calls[t] # <<>>
              /\ ctl[t][2][2][2] = <<t, Len(calls[t])>>
              /\ calls[t][Len(calls[t])] < 0

(* a thread has the error of its failing call in hand after another thread's
   later call has replaced the library's diagnostic state *)
C3_Witness ==
    \E t \in Threads :
        /\ HoldsH5Error(t)
        /\ diag # ctl[t][2][2][2]
        /\ \E u \in Threads : u # t /\ calls[u] # <<>>

(* C4: the lock is released on every exit path: a thread holds the lock as
   many times as it has locked calls in progress, so a thread outside every
   locked closure holds it zero times, and when no thread is inside one the
   lock is free and any thread waiting for it can take it *)
C4_Released ==
    /\ \A t \in Threads : Held(t) = SyncFrames(t)
    /\ \A t \in Threads : ~InLockedClosure(t) => Held(t) = 0
    /\ (\A t \in Threads : ~InLockedClosure(t)) =>
          /\ owner = 0
          /\ count = 0
          /\ \A u \in Threads : Evaluating(u, {"sync"}) => ENABLED sync(u)

(* one thread's nested locked calls were unwound by a panic, another left a
   locked closure by an early error return, and the lock is free *)
C4_Witness ==
    \E t \in Threads, u \in Threads :
        /\ ctl[t] = <<"dead">>
        /\ Len(lockLog[t]) >= 4
        /\ Done(u)
        /\ \E s \in Statuses : s < 0 /\ prog[u] = EarlyReturn(s)
        /\ IsErr(Result(u))
        /\ owner = 0

(* C5: no lost updates: when every thread is a worker that makes
   IncrPerThread locked calls, each reading the counter and then writing the
   value read plus one, the final counter is IncrPerThread * NThreads *)
C5_NoLostUpdate ==
    (AllHalted /\ \A t \in Threads : prog[t] = Worker) =>
        counter = IncrPerThread * NThreads

(* all the workers have finished *)
C5_Witness ==
    /\ AllHalted
    /\ \A t \in Threads : prog[t] = Worker
    /\ counter = IncrPerThread * NThreads
    /\ \A t \in Threads : Len(lockLog[t]) = 2 * IncrPerThread

(* C6: a checked call is Ok(s), with s unchanged, for every status s >= 0 of
   the foreign call and Err, with the error built from the diagnostic state,
   for every s < 0; never Ok for a negative status nor Err for another *)
C6_CheckedStatus ==
    \A t \in Threads, s \in Statuses :
        Done(t) /\ prog[t] = Checked(s) =>
            IF s >= 0
            THEN Result(t) = Ok(Scalar(s))
            ELSE Result(t) = Err(<<"H5", <<t, 1>>>>)

(* one checked call has failed and another has returned a positive status *)
C6_Witness ==
    \E t \in Threads, u \in Threads :
        /\ Done(t) /\ Done(u)
        /\ \E s \in Statuses : s < 0 /\ prog[t] = Checked(s) /\ IsErr(Result(t))
        /\ \E s \in Statuses : s > 0 /\ prog[u] = Checked(s) /\ Result(u) = Ok(Scalar(s))

(* what slot i holds after a getter function that wrote w *)
SlotAfter(w, i) == IF i \in DOMAIN w THEN w[i] ELSE Default

(* C7: for every arity n in 1..4 and every getter function that returns a
   status >= 0, h5get! is Ok of the n-tuple whose i-th component is the value
   written through the i-th output pointer, the default where nothing was
   written; for n = 1 it is the bare scalar, not a 1-tuple *)
C7_GetValues ==
    \A n \in 1..MaxArity : \A s \in Statuses, w \in Writes(n) :
        Done(1) /\ s >= 0 /\ prog[1] = h5get_macro(n, Ffi(s, w)) =>
            IF n = 1
            THEN Result(1) = Ok(Scalar(SlotAfter(w, 1)))
            ELSE Result(1) = Ok(Tuple([i \in 1..n |-> SlotAfter(w, i)]))

(* a getter of the largest arity has returned distinct values in its first
   and last slots and left another slot unwritten *)
C7_Witness ==
    \E s \in Statuses, w \in Writes(MaxArity) :
        /\ Done(1) /\ s >= 0
        /\ prog[1] = h5get_macro(MaxArity, Ffi(s, w))
        /\ DOMAIN w = {1, MaxArity}
        /\ w[1] # w[MaxArity]
        /\ Result(1) = Ok(Tuple([i \in 1..MaxArity |-> SlotAfter(w, i)]))

(* C8: for every arity n in 1..4 and every getter function that returns a
   negative status, h5get! is Err, never Ok of defaults, and h5get_d! is the
   tuple of the defaults (the bare default for n = 1), also when the function
   wrote some of its slots before it failed *)
C8_GetFailure ==
    \A n \in 1..MaxArity : \A s \in Statuses, w \in Writes(n) :
        Done(1) /\ s < 0 =>
            /\ prog[1] = h5get_macro(n, Ffi(s, w)) =>
                  Result(1) = Err(<<"H5", <<1, 1>>>>)
            /\ prog[1] = h5get_d_macro(n, Ffi(s, w)) =>
                  IF n = 1
                  THEN Result(1) = Scalar(Default)
                  ELSE Result(1) = Tuple([i \in 1..n |-> Default])

(* a failing getter function had written all of its slots and h5get_d! has
   returned the defaults *)
C8_Witness ==
    \E s \in Statuses, w \in Writes(MaxArity) :
        /\ Done(1) /\ s < 0
        /\ prog[1] = h5get_d_macro(MaxArity, Ffi(s, w))
        /\ DOMAIN w = 1..MaxArity
        /\ slots[1] = w
        /\ Result(1) = Tuple([i \in 1..MaxArity |-> Default])

(* C9: h5try! on a successful call yields the raw status to the surrounding
   expression and the operation goes on; on a failing call the operation
   returns Err at once: no later foreign call of the operation is made and
   the error is that of the first failing call *)
C9_TryReturns ==
    \A s1 \in Statuses, s2 \in Statuses :
        Done(1) /\ prog[1] = TryProgram(s1, s2) =>
            IF s1 < 0
            THEN calls[1] = <<s1>> /\ Result(1) = Err(<<"H5", <<1, 1>>>>)
            ELSE /\ calls[1] = <<s1, s2>>
                 /\ IF s2 < 0
                    THEN Result(1) = Err(<<"H5", <<1, 2>>>>)
                    ELSE Result(1) = Ok(Scalar(s2))

(* the first call of an operation failed, its second call would have
   succeeded, and the operation has returned the error *)
C9_Witness ==
    \E s1 \in Statuses, s2 \in Statuses :
        /\ Done(1) /\ s1 < 0 /\ s2 >= 0
        /\ prog[1] = TryProgram(s1, s2)
        /\ calls[1] = <<s1>>
        /\ IsErr(Result(1))

(* the decimal text of the arguments used in the messages *)
Shown(a) ==
    CASE a = 7 -> <<"7">>
      [] a = 42 -> <<"4", "2">>
      [] a = 0 - 3 -> <<"-", "3">>

(* the text of each message *)
Message(fmt, args) ==
    CASE fmt = MsgFmt -> <<"m", "s", "g", " ">> \o Shown(args[1])
      [] fmt = <<"{}", "!">> -> Shown(args[1]) \o <<"!">>
      [] fmt = <<"n", "o">> -> <<"n", "o">>

(* an operation whose ensure! has a false condition returns the error with
   exactly the formatted message and makes no call; with a true condition it
   goes on to its call *)
C10_Final ==
    \A fmt \in Fmts :
        \A c \in BOOLEAN, args \in ArgsOf(fmt) :
            Done(1) /\ prog[1] = EnsureProgram(c, fmt, args) =>
                IF c
                THEN calls[1] = <<0>> /\ Result(1) = Ok(Scalar(0))
                ELSE calls[1] = <<>> /\ Result(1) = Err(<<"Internal", Message(fmt, args)>>)

(* the step of an ensure! whose condition is true changes nothing but the
   thread's position, which moves on with the unit value *)
C10_NoOp ==
    \A t \in Threads :
        (Evaluating(t, {"if_not"}) /\ Expr(t)[2] /\ ctl'[t] # ctl[t]) =>
            /\ ctl'[t] = <<"val", Unit>>
            /\ UNCHANGED <<owner, count, lockLog, diag, counter, stack, slots, tmp, calls, prog>>

(* C10: ensure! with a false condition returns Err from the enclosing
   operation with exactly the formatted message ("msg {}" with 42 gives
   "msg 42"); with a true condition it is a no-op: no error, no change of
   state, and the operation continues with its next statement *)
C10_Ensure == []C10_Final /\ [][C10_NoOp]_vars

(* ensure!(false, "msg {}", 42) has returned the error "msg 42" *)
C10_Witness ==
    /\ Done(1)
    /\ prog[1] = EnsureProgram(FALSE, MsgFmt, <<42>>)
    /\ Result(1) = Err(<<"Internal", <<"m", "s", "g", " ", "4", "2">>>>)
    /\ calls[1] = <<>>

====
